---- MODULE Spec2Model ----
(***************************************************************************)
(* mazesolve: a bitmap maze is decomposed into rectangles (extract_graph), *)
(* the rectangle graph is pruned of dead ends (prune), turned into an      *)
(* adjacency graph (to_adjacency_graph) and solved (into_dijkstra); main   *)
(* walks the predecessor map from the goal.                                *)
(*                                                                         *)
(* Spec      : the pipeline of main, from every small image.               *)
(* GraphSpec : the graph methods on every small EdgeSetGraph.              *)
(***************************************************************************)
EXTENDS Integers, Sequences, FiniteSets, TLC

\* ------------------------------------------------------------------ bounds

\* Images are drawn with width <= MaxWidth, height <= MaxHeight and at most
\* MaxCells pixels.
MaxWidth == 3
MaxHeight == 3
MaxCells == 9
\* Graphs handed directly to the graph methods have node ids 1..n, n <= MaxNodes.
MaxNodes == 4

\* ------------------------------------------------------------ program data

WHITE == 255
PixelValues == {0, WHITE}

I32_MAX == 2147483647

\* Option<NodeID>::None (NodeID is NonZeroU32) and Option<i32>::None.
None == 0
NoDist == -1

\* enum GridSquare: Clear, Wall, Covered(NodeID); node ids are positive.
Clear == 0
Wall == -1
Covered(id) == id
IsCovered(square) == square > 0

V2(x, y) == [x |-> x, y |-> y]
V2Add(a, b) == V2(a.x + b.x, a.y + b.y)
V2Sub(a, b) == V2(a.x - b.x, a.y - b.y)

Min(a, b) == IF a <= b THEN a ELSE b
Max(a, b) == IF a >= b THEN a ELSE b

Rect_new(a, b) ==
    [mins |-> V2(Min(a.x, b.x), Min(a.y, b.y)),
     maxs |-> V2(Max(a.x, b.x), Max(a.y, b.y))]
Rect_width(r) == r.maxs.x - r.mins.x
Rect_height(r) == r.maxs.y - r.mins.y
Rect_contains(r, p) ==
    /\ p.x >= r.mins.x
    /\ p.y >= r.mins.y
    /\ p.x < r.maxs.x
    /\ p.y < r.maxs.y

\* The cells of a half-open rectangle.
RectCells(r) == {V2(x, y) : x \in r.mins.x..(r.maxs.x - 1), y \in r.mins.y..(r.maxs.y - 1)}

Edge_new(a, b) == [min |-> Min(a, b), max |-> Max(a, b)]

\* ------------------------------------------------------------------- Grid

Grid_new_from_image(image) ==
    [squares |-> [i \in 1..Len(image.pixels) |->
                     IF image.pixels[i] = WHITE THEN Clear ELSE Wall],
     width   |-> image.width,
     height  |-> image.height]

Grid_in_bounds(grid, pos) ==
    Rect_contains([mins |-> V2(0, 0), maxs |-> V2(grid.width, grid.height)], pos)

\* Row-major offset of a position; sequences are 1-based.
Grid_index(grid, pos) == pos.y * grid.width + pos.x + 1

Grid_get(grid, pos) == grid.squares[Grid_index(grid, pos)]

\* --------------------------------------------------------------- grow_rect

RECURSIVE GrowMinX(_, _, _)
GrowMinX(grid, seed, minx) ==
    LET pos == V2(minx - 1, seed.y) IN
    IF ~Grid_in_bounds(grid, pos) \/ Grid_get(grid, pos) # Clear
    THEN minx
    ELSE GrowMinX(grid, seed, minx - 1)

\* grow_rect's second loop stopping at walls only, not at claimed squares.
RECURSIVE GrowMaxX_OverCovered(_, _, _)
GrowMaxX_OverCovered(grid, seed, maxx) ==
    LET pos == V2(maxx, seed.y) IN
    IF ~Grid_in_bounds(grid, pos) \/ Grid_get(grid, pos) = Wall
    THEN maxx
    ELSE GrowMaxX_OverCovered(grid, seed, maxx + 1)

RECURSIVE GrowMaxX(_, _, _)
GrowMaxX(grid, seed, maxx) ==
    LET pos == V2(maxx, seed.y) IN
    IF ~Grid_in_bounds(grid, pos) \/ Grid_get(grid, pos) # Clear
    THEN maxx
    ELSE GrowMaxX(grid, seed, maxx + 1)

RowClear(grid, minx, maxx, y) ==
    \A x \in minx..(maxx - 1) : Grid_get(grid, V2(x, y)) = Clear

\* grow_rect's third loop looking at the first column of the row only.
RECURSIVE GrowMinY_FirstColumn(_, _, _, _)
GrowMinY_FirstColumn(grid, minx, maxx, miny) ==
    LET y == miny - 1 IN
    IF ~Grid_in_bounds(grid, V2(minx, y)) THEN miny
    ELSE IF Grid_get(grid, V2(minx, y)) # Clear THEN miny
    ELSE GrowMinY_FirstColumn(grid, minx, maxx, miny - 1)

RECURSIVE GrowMinY(_, _, _, _)
GrowMinY(grid, minx, maxx, miny) ==
    LET y == miny - 1 IN
    IF ~Grid_in_bounds(grid, V2(minx, y)) THEN miny
    ELSE IF ~RowClear(grid, minx, maxx, y) THEN miny
    ELSE GrowMinY(grid, minx, maxx, miny - 1)

RECURSIVE GrowMaxY(_, _, _, _)
GrowMaxY(grid, minx, maxx, maxy) ==
    IF ~Grid_in_bounds(grid, V2(minx, maxy)) THEN maxy
    ELSE IF ~RowClear(grid, minx, maxx, maxy) THEN maxy
    ELSE GrowMaxY(grid, minx, maxx, maxy + 1)

grow_rect(grid, seed) ==
    LET minx == GrowMinX(grid, seed, seed.x)
        maxx == GrowMaxX(grid, seed, seed.x + 1)
        miny == GrowMinY(grid, minx, maxx, seed.y)
        maxy == GrowMaxY(grid, minx, maxx, seed.y + 1)
    IN Rect_new(V2(minx, miny), V2(maxx, maxy))

\* ---------------------------------------------------- scan_rect_boundary

\* The match recording no edge for a run of Covered squares.
MatchPrevSquare_NoEdge(st, id, step) ==
    IF st.prev_square = Clear
    THEN [st EXCEPT !.queue = Append(@, V2Sub(st.pos, step))]
    ELSE st

\* The match queuing the square after a run of Clear squares, not its last one.
MatchPrevSquare_QueueNext(st, id, step) ==
    IF IsCovered(st.prev_square)
    THEN [st EXCEPT !.edges = @ \cup {Edge_new(id, st.prev_square)}]
    ELSE IF st.prev_square = Clear
    THEN [st EXCEPT !.queue = Append(@, st.pos)]
    ELSE st

\* The match on prev_square of scan_edge: a finished run of Covered squares
\* records an edge, a finished run of Clear squares queues its last square.
MatchPrevSquare(st, id, step) ==
    IF IsCovered(st.prev_square)
    THEN [st EXCEPT !.edges = @ \cup {Edge_new(id, st.prev_square)}]
    ELSE IF st.prev_square = Clear
    THEN [st EXCEPT !.queue = Append(@, V2Sub(st.pos, step))]
    ELSE st

RECURSIVE ScanEdgeLoop(_, _, _, _, _)
ScanEdgeLoop(grid, id, step, count, st) ==
    IF count <= 0 \/ ~Grid_in_bounds(grid, st.pos) THEN st
    ELSE LET square == Grid_get(grid, st.pos)
             st1 == IF square # st.prev_square
                    THEN [MatchPrevSquare(st, id, step) EXCEPT !.prev_square = square]
                    ELSE st
         IN ScanEdgeLoop(grid, id, step, count - 1,
                         [st1 EXCEPT !.pos = V2Add(st1.pos, step)])

\* scan_edge without the match after the loop: the last run is dropped.
scan_edge_NoTrailingRun(grid, queue, edges, id, start, step, count) ==
    LET st0 == [pos |-> start, prev_square |-> Wall, queue |-> queue, edges |-> edges]
        st1 == ScanEdgeLoop(grid, id, step, count, st0)
    IN [queue |-> st1.queue, edges |-> st1.edges]

\* Returns the updated seed queue and edge set.
scan_edge(grid, queue, edges, id, start, step, count) ==
    LET st0 == [pos |-> start, prev_square |-> Wall, queue |-> queue, edges |-> edges]
        st1 == MatchPrevSquare(ScanEdgeLoop(grid, id, step, count, st0), id, step)
    IN [queue |-> st1.queue, edges |-> st1.edges]

\* scan_rect_boundary without the strip below the rectangle.
scan_rect_boundary_NoBottom(grid, queue, edges, id, rect) ==
    LET s1 == scan_edge(grid, queue, edges, id,
                        V2(rect.mins.x, rect.mins.y - 1), V2(1, 0), Rect_width(rect))
        s3 == scan_edge(grid, s1.queue, s1.edges, id,
                        V2(rect.mins.x - 1, rect.mins.y), V2(0, 1), Rect_height(rect))
    IN scan_edge(grid, s3.queue, s3.edges, id,
                 V2(rect.maxs.x, rect.mins.y), V2(0, 1), Rect_height(rect))

scan_rect_boundary(grid, queue, edges, id, rect) ==
    LET s1 == scan_edge(grid, queue, edges, id,
                        V2(rect.mins.x, rect.mins.y - 1), V2(1, 0), Rect_width(rect))
        s2 == scan_edge(grid, s1.queue, s1.edges, id,
                        V2(rect.mins.x, rect.maxs.y), V2(1, 0), Rect_width(rect))
        s3 == scan_edge(grid, s2.queue, s2.edges, id,
                        V2(rect.mins.x - 1, rect.mins.y), V2(0, 1), Rect_height(rect))
    IN scan_edge(grid, s3.queue, s3.edges, id,
                 V2(rect.maxs.x, rect.mins.y), V2(0, 1), Rect_height(rect))

\* A claiming loop that writes nothing.
ClaimRect_Nothing(grid, rect, id) == grid

\* The claiming loop of extract_graph: every square of rect becomes Covered(id).
ClaimRect(grid, rect, id) ==
    LET claimed == {Grid_index(grid, V2(x, y)) :
                        x \in rect.mins.x..(rect.maxs.x - 1),
                        y \in rect.mins.y..(rect.maxs.y - 1)}
    IN [grid EXCEPT !.squares =
            [i \in DOMAIN @ |-> IF i \in claimed THEN Covered(id) ELSE @[i]]]

\* ------------------------------------- positions given to Grid::get / get_mut

\* The squares of row y that grow_rect reads: from minx on, up to the first
\* that is not Clear.
RowReads(grid, minx, maxx, y) ==
    {V2(x, y) : x \in {x1 \in minx..(maxx - 1) :
                          \A x2 \in minx..(x1 - 1) : Grid_get(grid, V2(x2, y)) = Clear}}

\* grow_rect reads the probes of its two x loops where in_bounds lets it, and
\* of every row whose first column is in bounds the squares of RowReads.
grow_rect_reads(grid, seed) ==
    LET rect == grow_rect(grid, seed)
        xprobes == {V2(x, seed.y) : x \in (rect.mins.x - 1)..rect.maxs.x} \ {seed}
        rows == ((rect.mins.y - 1)..rect.maxs.y) \ {seed.y}
    IN {p \in xprobes : Grid_in_bounds(grid, p)}
       \cup UNION {RowReads(grid, rect.mins.x, rect.maxs.x, y) :
                      y \in {r \in rows : Grid_in_bounds(grid, V2(rect.mins.x, r))}}

\* scan_edge reads the squares of its strip up to the first out of bounds.
scan_edge_reads(grid, start, step, count) ==
    LET at(k) == V2(start.x + k * step.x, start.y + k * step.y)
    IN {at(k) : k \in {k1 \in 0..(count - 1) :
                          \A j \in 0..k1 : Grid_in_bounds(grid, at(j))}}

scan_rect_boundary_reads(grid, rect) ==
    scan_edge_reads(grid, V2(rect.mins.x, rect.mins.y - 1), V2(1, 0), Rect_width(rect))
    \cup scan_edge_reads(grid, V2(rect.mins.x, rect.maxs.y), V2(1, 0), Rect_width(rect))
    \cup scan_edge_reads(grid, V2(rect.mins.x - 1, rect.mins.y), V2(0, 1), Rect_height(rect))
    \cup scan_edge_reads(grid, V2(rect.maxs.x, rect.mins.y), V2(0, 1), Rect_height(rect))

\* Every position one iteration of the seed loop gives to get or get_mut: the
\* seed, and for a Clear seed the reads of grow_rect, the squares claimed and
\* the reads of the boundary scan.
StepAccesses(grid, seed) ==
    IF Grid_get(grid, seed) # Clear THEN {seed}
    ELSE LET rect == grow_rect(grid, seed)
         IN {seed} \cup grow_rect_reads(grid, seed) \cup RectCells(rect)
            \cup scan_rect_boundary_reads(grid, rect)

\* ------------------------------------------------------------------ state

VARIABLES
    pc,         \* the stage the program is in
    fault,      \* the panic that ended the run, "" when none
    image,      \* extract_graph's image: [width, height, pixels]
    start_pos,  \* extract_graph's start cell
    goal_pos,   \* extract_graph's goal cell
    grid,       \* extract_graph's Grid
    queue,      \* extract_graph's seed queue
    id,         \* extract_graph's next node id
    start_id,   \* extract_graph's start_id (None = 0)
    goal_id,    \* extract_graph's goal_id (None = 0)
    accessed,   \* positions the last seed-loop iteration gave to get / get_mut
    nodes,      \* node map of the graph in hand: NodeID -> payload
    edges,      \* edge set of the graph in hand
    start,      \* GraphCommon.start
    goal,       \* GraphCommon.goal
    given,      \* the EdgeSetGraph as first produced or given
    adjs,       \* AdjacencyGraph.adjs
    dists,      \* into_dijkstra's dists (NoDist = None), then the distances
    paths,      \* into_dijkstra's paths / DijkstraGraph.paths
    pqueue,     \* into_dijkstra's priority queue: item -> distance key
    distance,   \* DijkstraGraph: the i32 of each node's payload
    next_id,    \* main's next_id while it walks the predecessors (None = 0)
    walk_id,    \* main's id: the node the walk last visited (None = 0)
    steps       \* number of predecessor() calls that returned a node

vars == <<pc, fault, image, start_pos, goal_pos, grid, queue, id, start_id, goal_id,
          accessed,
          nodes, edges, start, goal, given, adjs, dists, paths, pqueue, distance,
          next_id, walk_id, steps>>

extractVars == <<image, start_pos, goal_pos, grid, queue, id, start_id, goal_id, accessed>>
graphVars == <<nodes, edges, start, goal>>
dijkstraVars == <<dists, paths, pqueue, distance>>
walkVars == <<next_id, walk_id, steps>>

EmptyFn == [x \in {} |-> 0]

\* ---------------------------------------------------------- extract_graph

Cells(w, h) == {V2(x, y) : x \in 0..(w - 1), y \in 0..(h - 1)}

Images ==
    UNION {[width : {w}, height : {h}, pixels : [1..(w * h) -> PixelValues]] :
              <<w, h>> \in {d \in (1..MaxWidth) \X (1..MaxHeight) : d[1] * d[2] <= MaxCells}}

\* extract_graph has been entered: the grid is built, the queue holds the start cell.
Init ==
    /\ image \in Images
    /\ start_pos \in Cells(image.width, image.height)
    /\ goal_pos \in Cells(image.width, image.height)
    /\ grid = Grid_new_from_image(image)
    /\ queue = <<start_pos>>
    /\ id = 1
    /\ start_id = None
    /\ goal_id = None
    /\ accessed = {}
    /\ nodes = EmptyFn
    /\ edges = {}
    /\ start = None
    /\ goal = None
    /\ given = [nodes |-> EmptyFn, edges |-> {}, start |-> None, goal |-> None]
    /\ adjs = EmptyFn
    /\ dists = EmptyFn
    /\ paths = EmptyFn
    /\ pqueue = EmptyFn
    /\ distance = EmptyFn
    /\ next_id = None
    /\ walk_id = None
    /\ steps = 0
    /\ pc = "extract"
    /\ fault = ""

\* HashMap::insert
MapInsert(map, key, value) ==
    [k \in DOMAIN map \cup {key} |-> IF k = key THEN value ELSE map[k]]

\* One iteration of the seed loop of extract_graph.
ExtractStep ==
    /\ pc = "extract"
    /\ queue # <<>>
    /\ LET seed == Head(queue)
           rest == Tail(queue)
       IN IF Grid_index(grid, seed) \notin DOMAIN grid.squares
          THEN \* self.squares[index]
               /\ pc' = "panic"
               /\ fault' = "squares.index"
               /\ queue' = rest
               /\ accessed' = {seed}
               /\ UNCHANGED <<grid, id, start_id, goal_id, nodes, edges>>
          ELSE IF Grid_get(grid, seed) # Clear
          THEN /\ queue' = rest
               /\ accessed' = {seed}
               /\ UNCHANGED <<pc, fault, grid, id, start_id, goal_id, nodes, edges>>
          ELSE LET rect == grow_rect(grid, seed)
                   grid1 == ClaimRect(grid, rect, id)
                   scan == scan_rect_boundary(grid1, rest, edges, id, rect)
                   \* debug_assert!(start_id.is_none()), debug_assert!(goal_id.is_none())
                   asserts == /\ (Rect_contains(rect, start_pos) => start_id = None)
                              /\ (Rect_contains(rect, goal_pos) => goal_id = None)
               IN /\ grid' = grid1
                  /\ accessed' = StepAccesses(grid, seed)
                  /\ queue' = scan.queue
                  /\ edges' = scan.edges
                  /\ nodes' = MapInsert(nodes, id, rect)
                  /\ start_id' = IF Rect_contains(rect, start_pos) THEN id ELSE start_id
                  /\ goal_id' = IF Rect_contains(rect, goal_pos) THEN id ELSE goal_id
                  /\ id' = id + 1
                  /\ IF asserts
                     THEN UNCHANGED <<pc, fault>>
                     ELSE \* a debug build panics, a release build goes on
                          \/ UNCHANGED <<pc, fault>>
                          \/ pc' = "panic" /\ fault' = "debug_assert"
    /\ UNCHANGED <<image, start_pos, goal_pos, start, goal, given, adjs>>
    /\ UNCHANGED <<dijkstraVars, walkVars>>

\* The seed queue is empty: start_id.unwrap(), goal_id.unwrap(), and the graph
\* goes to main, which calls prune on it.
ExtractReturn ==
    /\ pc = "extract"
    /\ queue = <<>>
    /\ IF start_id = None
       THEN /\ pc' = "panic"
            /\ fault' = "start_id.unwrap"
            /\ UNCHANGED <<start, goal, given>>
       ELSE IF goal_id = None
       THEN /\ pc' = "panic"
            /\ fault' = "goal_id.unwrap"
            /\ UNCHANGED <<start, goal, given>>
       ELSE /\ pc' = "prune"
            /\ start' = start_id
            /\ goal' = goal_id
            /\ given' = [nodes |-> nodes, edges |-> edges, start |-> start_id, goal |-> goal_id]
            /\ UNCHANGED fault
    /\ UNCHANGED <<extractVars, nodes, edges, adjs, dijkstraVars, walkVars>>

\* ------------------------------------------------------------------- prune

\* degrees: every node starts at 0, every edge adds one to its min and its max.
Degree(es, n) ==
    Cardinality({e \in es : e.min = n}) + Cardinality({e \in es : e.max = n})

\* Dead ends as the nodes of degree 2 or less.
DeadEnds_AtMostTwo(ns, es, s, g) ==
    {n \in DOMAIN ns : Degree(es, n) <= 2 /\ n # s /\ n # g}

\* Dead ends as the nodes without any edge only.
DeadEnds_IsolatedOnly(ns, es, s, g) ==
    {n \in DOMAIN ns : Degree(es, n) < 1 /\ n # s /\ n # g}

\* Dead ends without the exemption of start and goal.
DeadEnds_NoExemption(ns, es, s, g) ==
    {n \in DOMAIN ns : Degree(es, n) < 2}

DeadEnds(ns, es, s, g) ==
    {n \in DOMAIN ns : Degree(es, n) < 2 /\ n # s /\ n # g}

\* Edges dropped only when both ends are dead ends.
KeptEdges_BothDead(es, dead) == {e \in es : e.min \notin dead \/ e.max \notin dead}

KeptEdges(es, dead) == {e \in es : e.min \notin dead /\ e.max \notin dead}

KeptNodes(ns, dead) == [n \in DOMAIN ns \ dead |-> ns[n]]

\* degrees.get_mut(..).unwrap() fails on an edge whose endpoint is no node.
DanglingEdge(ns, es) == \E e \in es : e.min \notin DOMAIN ns \/ e.max \notin DOMAIN ns

\* One iteration of prune's loop that finds dead ends and removes them.
PruneRound ==
    /\ pc \in {"graph", "prune"}
    /\ IF DanglingEdge(nodes, edges)
       THEN /\ pc' = "panic"
            /\ fault' = "degrees.unwrap"
            /\ UNCHANGED <<nodes, edges>>
       ELSE LET dead == DeadEnds(nodes, edges, start, goal)
            IN /\ dead # {}
               /\ edges' = KeptEdges(edges, dead)
               /\ nodes' = KeptNodes(nodes, dead)
               /\ pc' = "prune"
               /\ UNCHANGED fault
    /\ UNCHANGED <<extractVars, start, goal, given, adjs, dijkstraVars, walkVars>>

\* The iteration that finds no dead end: prune returns the graph.
PruneReturn ==
    /\ pc \in {"graph", "prune"}
    /\ ~DanglingEdge(nodes, edges)
    /\ DeadEnds(nodes, edges, start, goal) = {}
    /\ pc' = "pruned"
    /\ UNCHANGED <<fault, extractVars, graphVars, given, adjs, dijkstraVars, walkVars>>

\* prune as a function: the graph it returns for [nodes, edges, start, goal].
RECURSIVE prune(_)
prune(g) ==
    LET dead == DeadEnds(g.nodes, g.edges, g.start, g.goal)
    IN IF dead = {} THEN g
       ELSE prune([g EXCEPT !.edges = KeptEdges(g.edges, dead),
                            !.nodes = KeptNodes(g.nodes, dead)])

\* ------------------------------------------------------ to_adjacency_graph

\* An entry is made for the two ends of every edge, and for nothing else.
AdjacencyOf(es) ==
    [n \in {e.min : e \in es} \cup {e.max : e \in es} |->
        {e.max : e \in {f \in es : f.min = n}} \cup {e.min : e \in {f \in es : f.max = n}}]

ToAdjacencyGraph ==
    /\ pc \in {"graph", "pruned"}
    /\ adjs' = AdjacencyOf(edges)
    /\ pc' = "adjacency"
    /\ UNCHANGED <<fault, extractVars, graphVars, given, dijkstraVars, walkVars>>

\* ----------------------------------------------------------- into_dijkstra

InitialDists(ns, s) == [n \in DOMAIN ns |-> IF n = s THEN 0 ELSE NoDist]

\* Option<i32>::unwrap_or
UnwrapOr(dist, default) == IF dist = NoDist THEN default ELSE dist

\* dists, paths and the priority queue are built.
DijkstraStart ==
    /\ pc = "adjacency"
    /\ dists' = InitialDists(nodes, start)
    /\ paths' = EmptyFn
    /\ pqueue' = [n \in DOMAIN nodes |-> UnwrapOr(InitialDists(nodes, start)[n], I32_MAX)]
    /\ pc' = "dijkstra"
    /\ UNCHANGED <<fault, extractVars, graphVars, given, adjs, distance, walkVars>>

\* A pop that gives any queued item.
PopChoices_Any(pq) == DOMAIN pq

\* queue.pop() gives an item of greatest priority Reverse(key): of least key;
\* which one among equal keys is up to the queue.
PopChoices(pq) == {u \in DOMAIN pq : \A w \in DOMAIN pq : pq[u] <= pq[w]}

\* A relaxation that does not compare with the known distance.
Relaxed_NoCompare(ds, nbrs, new_dist) == nbrs

\* The neighbours that the pop of u relaxes.
Relaxed(ds, nbrs, new_dist) == {v \in nbrs : new_dist < UnwrapOr(ds[v], I32_MAX)}

\* One iteration of the loop of into_dijkstra.
DijkstraPop ==
    /\ pc = "dijkstra"
    /\ DOMAIN pqueue # {}
    /\ \E u \in PopChoices(pqueue) :
         LET rest == [n \in DOMAIN pqueue \ {u} |-> pqueue[n]] IN
         IF u \notin DOMAIN adjs
         THEN \* self.neighbors(u): adjs.get(&id).unwrap()
              /\ pc' = "panic"
              /\ fault' = "neighbors.unwrap"
              /\ pqueue' = rest
              /\ UNCHANGED <<dists, paths>>
         ELSE IF \E v \in adjs[u] : v \notin DOMAIN dists
         THEN \* dists[&v]
              /\ pc' = "panic"
              /\ fault' = "dists.index"
              /\ pqueue' = rest
              /\ UNCHANGED <<dists, paths>>
         ELSE LET new_dist == UnwrapOr(dists[u], 0) + 1
                  relaxed == Relaxed(dists, adjs[u], new_dist)
              IN /\ dists' = [n \in DOMAIN dists |->
                                 IF n \in relaxed THEN new_dist ELSE dists[n]]
                 /\ paths' = [n \in DOMAIN paths \cup relaxed |->
                                 IF n \in relaxed THEN u ELSE paths[n]]
                 \* change_priority does nothing for an item no longer queued
                 /\ pqueue' = [n \in DOMAIN rest |->
                                 IF n \in relaxed THEN new_dist ELSE rest[n]]
                 /\ UNCHANGED <<pc, fault>>
    /\ UNCHANGED <<extractVars, graphVars, given, adjs, distance, walkVars>>

\* The queue is empty: every node's payload gets its distance, i32::MAX for None.
DijkstraReturn ==
    /\ pc = "dijkstra"
    /\ DOMAIN pqueue = {}
    /\ distance' = [n \in DOMAIN nodes |-> UnwrapOr(dists[n], I32_MAX)]
    /\ pc' = "solved"
    /\ UNCHANGED <<fault, extractVars, graphVars, given, adjs, dists, paths, pqueue, walkVars>>

goal_distance == distance[goal]

predecessor(n) == IF n \in DOMAIN paths THEN paths[n] ELSE None

\* -------------------------------------------------------------------- main

\* let mut next_id = Some(graph.goal())
MainWalkStart ==
    /\ pc = "solved"
    /\ next_id' = goal
    /\ walk_id' = None
    /\ steps' = 0
    /\ pc' = "walk"
    /\ UNCHANGED <<fault, extractVars, graphVars, given, adjs, dijkstraVars>>

\* One iteration of main's walk: the node is drawn, then its predecessor is taken.
\* A walk that has taken more steps than there are nodes is in a cycle and is
\* followed no further.
MainWalkStep ==
    /\ pc = "walk"
    /\ steps <= Cardinality(DOMAIN nodes)
    /\ IF next_id = None
       THEN /\ pc' = "done"
            /\ UNCHANGED <<fault, next_id, walk_id, steps>>
       ELSE IF next_id \notin DOMAIN nodes
       THEN \* graph.get_node(id)
            /\ pc' = "panic"
            /\ fault' = "get_node.index"
            /\ UNCHANGED <<next_id, walk_id, steps>>
       ELSE /\ walk_id' = next_id
            /\ next_id' = predecessor(next_id)
            /\ steps' = IF predecessor(next_id) = None THEN steps ELSE steps + 1
            /\ UNCHANGED <<pc, fault>>
    /\ UNCHANGED <<extractVars, graphVars, given, adjs, dijkstraVars>>

\* ---------------------------------------------------------- specifications

Next ==
    \/ ExtractStep
    \/ ExtractReturn
    \/ PruneRound
    \/ PruneReturn
    \/ ToAdjacencyGraph
    \/ DijkstraStart
    \/ DijkstraPop
    \/ DijkstraReturn
    \/ MainWalkStart
    \/ MainWalkStep

Spec == Init /\ [][Next]_vars

\* The payload of node n in a graph given directly to the graph methods.
Payload(n) == Rect_new(V2(n, 0), V2(n + 1, 1))

SimpleEdges(n) == {Edge_new(a, b) : <<a, b>> \in {p \in (1..n) \X (1..n) : p[1] < p[2]}}

\* An EdgeSetGraph built by EdgeSetGraph::new: nodes 1..n, edges between
\* distinct nodes of it, any start and goal among the nodes.
GraphInit ==
    /\ \E n \in 1..MaxNodes :
         /\ nodes = [i \in 1..n |-> Payload(i)]
         /\ edges \in SUBSET SimpleEdges(n)
         /\ start \in 1..n
         /\ goal \in 1..n
    /\ given = [nodes |-> nodes, edges |-> edges, start |-> start, goal |-> goal]
    /\ image = [width |-> 0, height |-> 0, pixels |-> <<>>]
    /\ start_pos = V2(0, 0)
    /\ goal_pos = V2(0, 0)
    /\ grid = Grid_new_from_image(image)
    /\ queue = <<>>
    /\ id = 1
    /\ start_id = None
    /\ goal_id = None
    /\ accessed = {}
    /\ adjs = EmptyFn
    /\ dists = EmptyFn
    /\ paths = EmptyFn
    /\ pqueue = EmptyFn
    /\ distance = EmptyFn
    /\ next_id = None
    /\ walk_id = None
    /\ steps = 0
    /\ pc = "graph"
    /\ fault = ""

GraphNext ==
    \/ PruneRound
    \/ PruneReturn
    \/ ToAdjacencyGraph
    \/ DijkstraStart
    \/ DijkstraPop
    \/ DijkstraReturn
    \/ MainWalkStart
    \/ MainWalkStep

GraphSpec == GraphInit /\ [][GraphNext]_vars

\* ------------------------------------------------ vocabulary of the claims

\* The cells of the image that are white, i.e. Clear in the initial grid.
InitiallyClear(c) == image.pixels[c.y * image.width + c.x + 1] = WHITE

SideBySide(c, d) ==
    \/ c.x = d.x /\ (c.y = d.y + 1 \/ d.y = c.y + 1)
    \/ c.y = d.y /\ (c.x = d.x + 1 \/ d.x = c.x + 1)

RECURSIVE FloodClear(_)
FloodClear(seen) ==
    LET more == {c \in Cells(image.width, image.height) :
                    InitiallyClear(c) /\ \E d \in seen : SideBySide(c, d)}
    IN IF more \subseteq seen THEN seen ELSE FloodClear(seen \cup more)

\* The initially Clear cells joined to the start cell by 4-directional steps
\* through initially Clear cells.
ReachableClear == IF InitiallyClear(start_pos) THEN FloodClear({start_pos}) ELSE {}

RectsTouch(r, q) == \E c \in RectCells(r) : \E d \in RectCells(q) : SideBySide(c, d)

\* extract_graph has returned a graph (Spec only).
ExtractReturned == given.start # None

\* C1: once extract_graph has returned, every initially Clear cell reachable
\* from the start cell is Covered, carries the id of a node of the returned
\* graph, and lies in the rectangle of that node and of no other node.
C1_Coverage ==
    ExtractReturned =>
        \A c \in ReachableClear :
            LET sq == Grid_get(grid, c) IN
            /\ IsCovered(sq)
            /\ sq \in DOMAIN given.nodes
            /\ \A n \in DOMAIN given.nodes : Rect_contains(given.nodes[n], c) <=> n = sq

\* A run in which the start's component took three or more rectangles and
\* another Clear component was left alone.
C1_Witness ==
    /\ ExtractReturned
    /\ Cardinality(DOMAIN given.nodes) >= 3
    /\ \E c \in Cells(image.width, image.height) : InitiallyClear(c) /\ c \notin ReachableClear

\* C2: at every step of extract_graph and after it, the rectangles of two
\* distinct node ids share no cell, and every cell of a node's rectangle is
\* Covered by that node's id.
C2_Disjoint ==
    /\ \A a \in DOMAIN nodes : \A b \in DOMAIN nodes :
          a # b => RectCells(nodes[a]) \cap RectCells(nodes[b]) = {}
    /\ pc # "graph" =>
          \A a \in DOMAIN nodes : \A c \in RectCells(nodes[a]) :
              Grid_in_bounds(grid, c) /\ Grid_get(grid, c) = Covered(a)

\* extract_graph is still running and has claimed three rectangles, one of
\* them larger than a single cell.
C2_Witness ==
    /\ pc = "extract"
    /\ Cardinality(DOMAIN nodes) >= 3
    /\ \E a \in DOMAIN nodes : Cardinality(RectCells(nodes[a])) >= 2

\* C3: in the returned graph, Edge(a, b) for distinct a and b is in the edge
\* set exactly when their rectangles have cells that share a side, and no
\* edge joins a node to itself.
C3_EdgesAreAdjacency ==
    ExtractReturned =>
        /\ \A a \in DOMAIN given.nodes : \A b \in DOMAIN given.nodes :
              a # b => (Edge_new(a, b) \in given.edges
                          <=> RectsTouch(given.nodes[a], given.nodes[b]))
        /\ \A e \in given.edges : e.min # e.max

\* A returned graph with touching rectangles and rectangles that do not touch.
C3_Witness ==
    /\ ExtractReturned
    /\ Cardinality(given.edges) >= 3
    /\ \E a \in DOMAIN given.nodes : \E b \in DOMAIN given.nodes :
          a # b /\ ~RectsTouch(given.nodes[a], given.nodes[b])

\* The nodes joined to a node of seen by an edge of es.
Adjacent(es, seen) ==
    {e.max : e \in {f \in es : f.min \in seen}} \cup {e.min : e \in {f \in es : f.max \in seen}}

RECURSIVE ReachFrom(_, _)
ReachFrom(es, seen) ==
    LET more == Adjacent(es, seen)
    IN IF more \subseteq seen THEN seen ELSE ReachFrom(es, seen \cup more)

\* The nodes connected to s by a path of edges of es (s itself included).
ConnectedTo(es, s) == ReachFrom(es, {s})

\* Number of edges of a shortest path of es from the nodes of frontier (which
\* are at distance d) to n; I32_MAX when there is none.
RECURSIVE PathLength(_, _, _, _, _)
PathLength(es, frontier, seen, d, n) ==
    IF n \in frontier THEN d
    ELSE LET next == Adjacent(es, frontier) \ seen
         IN IF next = {} THEN I32_MAX
            ELSE PathLength(es, next, seen \cup next, d + 1, n)

ShortestPath(es, s, n) == PathLength(es, {s}, {s}, 0, n)

\* into_dijkstra has returned.
Solved == pc \in {"solved", "walk", "done"}

\* C4: in the pipeline, the distance reported for every node that survives
\* pruning is the number of edges of a shortest path from the start node to
\* it in the unpruned edge set.
C4_ShortestDistances ==
    Solved =>
        \A n \in DOMAIN nodes : distance[n] = ShortestPath(given.edges, start, n)

\* A solved maze in which pruning removed a node and the goal is two or more
\* edges away from the start.
C4_Witness ==
    /\ Solved
    /\ DOMAIN nodes # DOMAIN given.nodes
    /\ distance[goal] >= 2
    /\ distance[goal] < I32_MAX

\* C5: after into_dijkstra on a graph whose goal is connected to its start,
\* the walk of predecessor() from goal follows at each step an edge to a node
\* whose distance is one less, ends at start after goal_distance() steps, and
\* start has no predecessor entry.
C5_PredecessorWalk ==
    (Solved /\ goal \in ConnectedTo(edges, start)) =>
        /\ start \notin DOMAIN paths
        /\ pc \in {"walk", "done"} =>
              /\ next_id # None =>
                    /\ steps + distance[next_id] = goal_distance
                    /\ walk_id # None =>
                          /\ Edge_new(walk_id, next_id) \in edges
                          /\ distance[next_id] = distance[walk_id] - 1
              /\ (next_id = None /\ walk_id # None) =>
                    /\ walk_id = start
                    /\ steps = goal_distance
              /\ pc = "done" => (next_id = None /\ walk_id = start)

\* A finished walk of two or more steps that ended at start.
C5_Witness ==
    /\ pc = "done"
    /\ goal \in ConnectedTo(edges, start)
    /\ steps >= 2
    /\ walk_id = start

\* The edges of es that have n as an end.
IncidentEdges(es, n) == {e \in es : e.min = n \/ e.max = n}

\* C6: the graph prune returns has no node other than start and goal with
\* fewer than 2 incident edges, and prune applied to it returns the same
\* nodes and the same edges.
C6_PruneFixedPoint ==
    pc = "pruned" =>
        /\ \A n \in DOMAIN nodes \ {start, goal} :
              Cardinality(IncidentEdges(edges, n)) >= 2
        /\ LET again == prune([nodes |-> nodes, edges |-> edges,
                               start |-> start, goal |-> goal])
           IN again.nodes = nodes /\ again.edges = edges

\* prune returned after removing a dead-end branch and kept a non-terminal node.
C6_Witness ==
    /\ pc = "pruned"
    /\ Cardinality(DOMAIN given.nodes \ DOMAIN nodes) >= 1
    /\ DOMAIN nodes \ {start, goal} # {}

\* prune is running or has returned.
InPrune == pc \in {"prune", "pruned"}

\* C7: in every round of prune and in its output, start and goal are in the
\* node map with the payload they had, and are still the start and the goal.
C7_TerminalsKept ==
    InPrune =>
        /\ start = given.start
        /\ goal = given.goal
        /\ start \in DOMAIN nodes
        /\ goal \in DOMAIN nodes
        /\ nodes[start] = given.nodes[start]
        /\ nodes[goal] = given.nodes[goal]

\* prune returned a smaller graph in which start has no edge and goal has one.
C7_Witness ==
    /\ pc = "pruned"
    /\ DOMAIN nodes # DOMAIN given.nodes
    /\ start # goal
    /\ IncidentEdges(edges, start) = {}
    /\ IncidentEdges(given.edges, goal) # {}

\* C8 (as claimed): in the AdjacencyGraph returned by to_adjacency_graph every
\* node of the node map has an entry in the adjacency map, and v is in
\* adjs[u] exactly when u is in adjs[v].
C8_EveryNodeHasEntry ==
    pc = "adjacency" =>
        /\ DOMAIN adjs = DOMAIN nodes
        /\ \A u \in DOMAIN adjs : \A v \in DOMAIN adjs : v \in adjs[u] <=> u \in adjs[v]

\* C9 (as claimed): with a Clear start cell and a Clear goal cell that is not
\* connected to it, extract_graph does not abort.
C9_NoAbortOnUnreachableGoal ==
    (/\ InitiallyClear(start_pos)
     /\ InitiallyClear(goal_pos)
     /\ goal_pos \notin ReachableClear) => pc # "panic"

\* C10 (as claimed): after into_dijkstra on a graph in which every node has an
\* adjacency entry, a node not connected to start has the distance i32::MAX
\* and no predecessor entry.
C10_UnreachedStayInfinite ==
    (Solved /\ DOMAIN adjs = DOMAIN nodes) =>
        \A n \in DOMAIN nodes \ ConnectedTo(edges, start) :
            distance[n] = I32_MAX /\ n \notin DOMAIN paths

\* C11 (as claimed): when the clear space reachable from start is claimed by
\* one rectangle that holds the start cell and the goal cell, the pipeline
\* runs to completion and yields 1 node, 0 edges, start = goal and
\* goal_distance() = 0.
C11_OpenRoom ==
    (ExtractReturned /\ Cardinality(DOMAIN given.nodes) = 1) =>
        /\ pc # "panic"
        /\ Solved =>
              /\ Cardinality(DOMAIN nodes) = 1
              /\ edges = {}
              /\ start = goal
              /\ goal_distance = 0

\* Number of squares of the grid that are Clear.
ClearCount == Cardinality({i \in DOMAIN grid.squares : grid.squares[i] = Clear})

InitiallyClearCount == Cardinality({i \in DOMAIN image.pixels : image.pixels[i] = WHITE})

\* C12: in every step of the seed loop a Covered square stays Covered, the
\* popped seed is either discarded (the queue gets shorter, nothing else
\* changes) or claims at least one Clear square and makes one node, so the
\* pair (Clear squares, queue length) falls in the lexicographic order and the
\* loop stops; with the queue empty the loop is left; and the nodes made never
\* outnumber the initially Clear squares.
C12_SeedLoopStops ==
    [][pc = "extract" =>
         /\ \A i \in DOMAIN grid.squares :
               IsCovered(grid.squares[i]) => grid'.squares[i] = grid.squares[i]
         /\ queue # <<>> =>
               \/ /\ grid' = grid
                  /\ nodes' = nodes
                  /\ queue' = Tail(queue)
               \/ /\ ClearCount' < ClearCount
                  /\ Cardinality(DOMAIN nodes') = Cardinality(DOMAIN nodes) + 1
         /\ queue = <<>> => pc' # "extract"
         /\ Cardinality(DOMAIN nodes') + ClearCount' <= InitiallyClearCount
      ]_vars

\* The seed loop has emptied its queue after making three nodes, and a Clear
\* square it could not reach is left.
C12_Witness ==
    /\ pc = "extract"
    /\ queue = <<>>
    /\ Cardinality(DOMAIN nodes) >= 3
    /\ ClearCount >= 1

\* C13: during extract_graph every position given to Grid::get or
\* Grid::get_mut is inside the grid (the popped seed, the rows grow_rect
\* reads, the squares claimed, the strips scanned), every seed still queued
\* is inside the grid, and no index into the squares fails.
C13_AccessesInBounds ==
    /\ \A p \in accessed : Grid_in_bounds(grid, p)
    /\ \A i \in 1..Len(queue) : Grid_in_bounds(grid, queue[i])
    /\ fault # "squares.index"

\* An iteration that read whole rows beyond their first column and claimed a
\* rectangle two squares wide and two high, after an earlier rectangle.
C13_Witness ==
    /\ pc = "extract"
    /\ Cardinality(DOMAIN nodes) >= 2
    /\ LET last == nodes[id - 1]
       IN /\ Rect_width(last) >= 2
          /\ Rect_height(last) >= 2
          /\ RectCells(last) \subseteq accessed
          /\ \E p \in accessed : p.x > last.mins.x /\ p.y = last.maxs.y
    /\ queue # <<>>

\* Some square of the strip is out of bounds or not Clear.
StripBlocked(g, strip) ==
    \E c \in strip : ~Grid_in_bounds(g, c) \/ Grid_get(g, c) # Clear

LeftStrip(r) == {V2(r.mins.x - 1, y) : y \in r.mins.y..(r.maxs.y - 1)}
RightStrip(r) == {V2(r.maxs.x, y) : y \in r.mins.y..(r.maxs.y - 1)}
TopStrip(r) == {V2(x, r.mins.y - 1) : x \in r.mins.x..(r.maxs.x - 1)}
BottomStrip(r) == {V2(x, r.maxs.y) : x \in r.mins.x..(r.maxs.x - 1)}

\* C14: for every grid extract_graph reaches and every Clear square of it
\* taken as seed, the rectangle of grow_rect contains the seed, is made of
\* Clear squares of the grid only, and each of the four strips just outside
\* it is out of bounds or holds a square that is not Clear.
C14_GrowRectMaximal ==
    pc = "extract" =>
        \A seed \in Cells(grid.width, grid.height) :
            Grid_get(grid, seed) = Clear =>
                LET r == grow_rect(grid, seed) IN
                /\ Rect_contains(r, seed)
                /\ \A c \in RectCells(r) : Grid_in_bounds(grid, c) /\ Grid_get(grid, c) = Clear
                /\ StripBlocked(grid, LeftStrip(r))
                /\ StripBlocked(grid, RightStrip(r))
                /\ StripBlocked(grid, TopStrip(r))
                /\ StripBlocked(grid, BottomStrip(r))

\* A grid with a Covered square and a Clear seed whose rectangle has two or
\* more squares and is stopped above by a row inside the grid that holds a
\* Clear square and a square that is not Clear.
C14_Witness ==
    /\ pc = "extract"
    /\ \E i \in DOMAIN grid.squares : IsCovered(grid.squares[i])
    /\ \E seed \in Cells(grid.width, grid.height) :
          /\ Grid_get(grid, seed) = Clear
          /\ LET r == grow_rect(grid, seed) IN
             /\ Cardinality(RectCells(r)) >= 2
             /\ \A c \in TopStrip(r) : Grid_in_bounds(grid, c)
             /\ \E c \in TopStrip(r) : Grid_get(grid, c) = Clear
             /\ \E c \in TopStrip(r) : Grid_get(grid, c) # Clear

\* The edges of the given graph with both ends in S.
InducedEdges(S) == {e \in given.edges : e.min \in S /\ e.max \in S}

\* S holds start and goal, and every other node of S has 2 or more edges
\* to nodes of S.
KeepsDegree(S) ==
    /\ {start, goal} \subseteq S
    /\ \A n \in S \ {start, goal} : Cardinality(IncidentEdges(InducedEdges(S), n)) >= 2

\* The union of all such sets is such a set: the largest one.
LargestKept == UNION {S \in SUBSET DOMAIN given.nodes : KeepsDegree(S)}

\* The nodes on a shortest path of the given graph from start to goal.
ShortestChain ==
    LET es == given.edges
        d == ShortestPath(es, start, goal)
    IN IF d = I32_MAX THEN {}
       ELSE {n \in DOMAIN given.nodes :
                /\ ShortestPath(es, start, n) < I32_MAX
                /\ ShortestPath(es, n, goal) < I32_MAX
                /\ ShortestPath(es, start, n) + ShortestPath(es, n, goal) = d}

\* C15: the graph prune returns is the largest sub-graph of its input that
\* holds start and goal and in which every other node has degree 2 or more:
\* its nodes are the largest such node set, with their payloads, its edges
\* are the input's edges between kept nodes, and the nodes of a chain from
\* start to goal are all kept.
C15_LargestSubgraph ==
    pc = "pruned" =>
        /\ DOMAIN nodes = LargestKept
        /\ KeepsDegree(DOMAIN nodes)
        /\ \A n \in DOMAIN nodes : nodes[n] = given.nodes[n]
        /\ edges = InducedEdges(DOMAIN nodes)
        /\ ShortestChain \subseteq DOMAIN nodes

\* prune returned after a cascade: two nodes are gone, one of which had two
\* edges in the input, and start and goal are kept with the edge between them.
C15_Witness ==
    /\ pc = "pruned"
    /\ start # goal
    /\ Edge_new(start, goal) \in edges
    /\ Cardinality(DOMAIN given.nodes \ DOMAIN nodes) >= 2
    /\ \E n \in DOMAIN given.nodes \ DOMAIN nodes :
          Cardinality(IncidentEdges(given.edges, n)) >= 2

\* C16: the graph extract_graph returns, the graph at every round of prune
\* and the graph prune returns have start and goal in the node map and both
\* ends of every edge in the node map, and no degree lookup of prune fails.
C16_EdgesReferToNodes ==
    /\ ExtractReturned =>
          /\ {given.start, given.goal} \subseteq DOMAIN given.nodes
          /\ ~DanglingEdge(given.nodes, given.edges)
    /\ InPrune =>
          /\ {start, goal} \subseteq DOMAIN nodes
          /\ ~DanglingEdge(nodes, edges)
    /\ fault # "degrees.unwrap"

\* prune is in a later round, after it removed a dead end of the extracted
\* graph, and edges are left.
C16_Witness ==
    /\ ExtractReturned
    /\ pc = "prune"
    /\ DOMAIN nodes # DOMAIN given.nodes
    /\ edges # {}
    /\ edges # given.edges

\* C17: in the pipeline every node is connected to the start node by edges,
\* in the extracted graph and in the graph in hand during and after pruning,
\* and when into_dijkstra runs on more than one node every node it can pop
\* has a known distance (the default of 0 is not used).
C17_PoppedNodesAreKnown ==
    ExtractReturned =>
        /\ DOMAIN given.nodes \subseteq ConnectedTo(given.edges, given.start)
        /\ DOMAIN nodes \subseteq ConnectedTo(edges, start)
        /\ (pc = "dijkstra" /\ Cardinality(DOMAIN nodes) > 1) =>
              \A u \in PopChoices(pqueue) : dists[u] # NoDist

\* into_dijkstra is about to pop the last of three or more nodes, after
\* pruning removed a node.
C17_Witness ==
    /\ ExtractReturned
    /\ pc = "dijkstra"
    /\ Cardinality(DOMAIN nodes) >= 3
    /\ DOMAIN nodes # DOMAIN given.nodes
    /\ Cardinality(DOMAIN pqueue) = 1

\* The nodes the walk of predecessor() from n goes through after n.
RECURSIVE PredecessorsOf(_, _)
PredecessorsOf(n, seen) ==
    IF n \notin DOMAIN paths THEN seen
    ELSE IF paths[n] \in seen THEN seen
    ELSE PredecessorsOf(paths[n], seen \cup {paths[n]})

\* C18 (as claimed): after into_dijkstra on any graph the predecessor map has
\* no cycle: no walk of predecessor() comes back to the node it left, and
\* main's walk from goal takes fewer steps than there are nodes.
C18_NoPredecessorCycle ==
    Solved =>
        /\ \A n \in DOMAIN paths : n \notin PredecessorsOf(n, {})
        /\ steps < Cardinality(DOMAIN nodes)

====
